---- MODULE Spec2Model ----
(***************************************************************************)
(* Model of TransactionValidator (src/src/transaction-validator.ts).       *)
(*                                                                         *)
(* State: the UTXO pool the validator reads, the transaction a caller is   *)
(* building and signing, the ValidationResult of the last call of          *)
(* validateTransaction on it, and the number of calls made on it.          *)
(***************************************************************************)
EXTENDS Integers, Sequences, FiniteSets

VARIABLES utxoPool, transaction, result, calls

vars == <<utxoPool, transaction, result, calls>>

(* ------------------------------ bounds --------------------------------- *)

MaxInputs == 3

MaxOutputs == 2

MaxCalls == 2

(* ------------------------------ data ----------------------------------- *)

UTXOIds ==
  {[txId |-> "tx1", outputIndex |-> 0], [txId |-> "tx1", outputIndex |-> 1]}

Keys == {"K1", "K2"}

\* The address an output of the ledger pays to.
RecipientOf(utxoId) == IF utxoId.outputIndex = 0 THEN "K1" ELSE "K2"

NoUTXO == [absent |-> TRUE]

NoSignature == [unsigned |-> TRUE]

NoResult == [pending |-> TRUE]

\* Recorded amounts: a record may hold a non-positive amount, which is why
\* the validator checks it.
UTXOAmounts == {0, 1}

UTXORecords ==
  {[id |-> u, amount |-> a, recipient |-> RecipientOf(u)] :
     u \in UTXOIds, a \in UTXOAmounts}

\* Every pool snapshot: each identifier is unspent (a record whose id is the
\* identifier it is stored under) or absent.
Pools ==
  {p \in [UTXOIds -> UTXORecords \cup {NoUTXO}] :
     \A u \in UTXOIds : p[u] # NoUTXO => p[u].id = u}

OutputAmounts == {-1, 0, 1}

EmptyTransaction ==
  [id |-> "t", inputs |-> <<>>, outputs |-> <<>>, timestamp |-> 0]

(* ------------------------- collaborators ------------------------------- *)

\* UTXOPoolManager.getUTXO: point lookup, absent when spent or unknown.
getUTXO(txId, outputIndex) ==
  LET u == [txId |-> txId, outputIndex |-> outputIndex]
  IN  IF u \in DOMAIN utxoPool THEN utxoPool[u] ELSE NoUTXO

\* A signature made with the key of `signer` over `data`.
sign(data, signer) == [signer |-> signer, data |-> data]

\* verify(message, signature, publicKey)
verify(data, signature, publicKey) ==
  /\ signature # NoSignature
  /\ signature.signer = publicKey
  /\ signature.data = data

createValidationError(code, message) == [code |-> code, message |-> message]

(* ------------------- createTransactionDataForSigning ------------------- *)

\* The unsigned transaction: inputs reduced to {utxoId, owner}.
createTransactionDataForSigning(tx) ==
  [id |-> tx.id,
   inputs |-> [i \in 1..Len(tx.inputs) |->
                 [utxoId |-> tx.inputs[i].utxoId, owner |-> tx.inputs[i].owner]],
   outputs |-> tx.outputs,
   timestamp |-> tx.timestamp]

(* ------------------------- validateTransaction ------------------------- *)

\* Variant: the key leaves out the output index.
utxoKeyOfTxIdOnly(input) == <<input.utxoId.txId>>

\* `${input.utxoId.txId}:${input.utxoId.outputIndex}`
utxoKeyOf(input) == <<input.utxoId.txId, input.utxoId.outputIndex>>

\* Variant: the existence test is inverted.
checkExistsInverted(errors, input) ==
  LET utxo == getUTXO(input.utxoId.txId, input.utxoId.outputIndex)
  IN  IF utxo # NoUTXO
      THEN Append(errors,
             createValidationError("UTXO_NOT_FOUND",
               [text |-> "UTXO not found", txId |-> input.utxoId.txId,
                outputIndex |-> input.utxoId.outputIndex]))
      ELSE errors

\* Lines 23-26: existence check of the input of the current iteration.
checkExists(errors, input) ==
  LET utxo == getUTXO(input.utxoId.txId, input.utxoId.outputIndex)
  IN  IF utxo = NoUTXO
      THEN Append(errors,
             createValidationError("UTXO_NOT_FOUND",
               [text |-> "UTXO not found", txId |-> input.utxoId.txId,
                outputIndex |-> input.utxoId.outputIndex]))
      ELSE errors

\* Lines 29-33: transaction.outputs.forEach, from output i on.
\* acc = [errors, totalOutputValue]
RECURSIVE checkOutputs(_, _, _)
checkOutputs(outputs, i, acc) ==
  IF i > Len(outputs) THEN acc
  ELSE LET output == outputs[i]
           errs == IF output.amount <= 0
                   THEN Append(acc.errors,
                          createValidationError("NEGATIVE_AMOUNT",
                            [text |-> "Output amount must be positive",
                             amount |-> output.amount]))
                   ELSE acc.errors
       IN  checkOutputs(outputs, i + 1,
             [errors |-> errs,
              totalOutputValue |-> acc.totalOutputValue + output.amount])

\* Lines 34-41: transaction.inputs.forEach, from input i on.
\* acc = [errors, totalInputValue]
RECURSIVE checkInputAmounts(_, _, _)
checkInputAmounts(inputs, i, acc) ==
  IF i > Len(inputs) THEN acc
  ELSE LET input == inputs[i]
           utxo == getUTXO(input.utxoId.txId, input.utxoId.outputIndex)
       IN  IF utxo # NoUTXO
           THEN checkInputAmounts(inputs, i + 1,
                  [errors |->
                     IF utxo.amount <= 0
                     THEN Append(acc.errors,
                            createValidationError("NEGATIVE_AMOUNT",
                              [text |-> "UTXO amount must be positive",
                               id |-> utxo.id]))
                     ELSE acc.errors,
                   totalInputValue |-> acc.totalInputValue + utxo.amount])
           ELSE checkInputAmounts(inputs, i + 1, acc)

\* Lines 42-44: the balance check.
checkBalance(errors, totalInputValue, totalOutputValue) ==
  IF totalInputValue # totalOutputValue
  THEN Append(errors,
         createValidationError("AMOUNT_MISMATCH",
           [text |-> "Input value is different than output value",
            totalInputValue |-> totalInputValue,
            totalOutputValue |-> totalOutputValue]))
  ELSE errors

\* Lines 45-55: transaction.inputs.forEach, from input i on.
RECURSIVE checkSignatures(_, _, _)
checkSignatures(tx, i, errors) ==
  IF i > Len(tx.inputs) THEN errors
  ELSE LET input == tx.inputs[i]
           utxo == getUTXO(input.utxoId.txId, input.utxoId.outputIndex)
       IN  IF utxo # NoUTXO
           THEN LET transactionData == createTransactionDataForSigning(tx)
                    isValid == verify(transactionData, input.signature,
                                      utxo.recipient)
                IN  checkSignatures(tx, i + 1,
                      IF ~isValid
                      THEN Append(errors,
                             createValidationError("INVALID_SIGNATURE",
                               [text |-> "Invalid signature for UTXO",
                                txId |-> input.utxoId.txId,
                                outputIndex |-> input.utxoId.outputIndex]))
                      ELSE errors)
           ELSE checkSignatures(tx, i + 1, errors)

\* Variant: the identifier is added to the set before the set is tested.
checkDoubleSpendAddFirst(st, input) ==
  LET utxoKey == utxoKeyOf(input)
      seen == st.seenUTXOs \cup {utxoKey}
  IN  [errors |->
         IF utxoKey \in seen
         THEN Append(st.errors,
                createValidationError("DOUBLE_SPENDING",
                  [text |-> "UTXO used more than once", utxoKey |-> utxoKey]))
         ELSE st.errors,
       seenUTXOs |-> seen]

\* Lines 56-63: double-spend check of the input of the current iteration.
\* st = [errors, seenUTXOs]
checkDoubleSpend(st, input) ==
  LET utxoKey == utxoKeyOf(input)
  IN  [errors |->
         IF utxoKey \in st.seenUTXOs
         THEN Append(st.errors,
                createValidationError("DOUBLE_SPENDING",
                  [text |-> "UTXO used more than once", utxoKey |-> utxoKey]))
         ELSE st.errors,
       seenUTXOs |-> st.seenUTXOs \cup {utxoKey}]

\* Lines 22-64: the body of the outer transaction.inputs.forEach for one
\* input.  Every check of lines 27-55 sits inside this body and so runs
\* once per input of the transaction.
forEachInputBody(tx, st, input) ==
  LET e1 == checkExists(st.errors, input)
      o  == checkOutputs(tx.outputs, 1,
              [errors |-> e1, totalOutputValue |-> 0])
      a  == checkInputAmounts(tx.inputs, 1,
              [errors |-> o.errors, totalInputValue |-> 0])
      e4 == checkBalance(a.errors, a.totalInputValue, o.totalOutputValue)
      e5 == checkSignatures(tx, 1, e4)
  IN  checkDoubleSpend([errors |-> e5, seenUTXOs |-> st.seenUTXOs], input)

\* Lines 22-64: the outer transaction.inputs.forEach, from input i on.
RECURSIVE forEachInput(_, _, _)
forEachInput(tx, i, st) ==
  IF i > Len(tx.inputs) THEN st
  ELSE forEachInput(tx, i + 1, forEachInputBody(tx, st, tx.inputs[i]))

\* Variant: the error list is kept by the validator from one call to the next.
newCallKeepingErrors ==
  [errors |-> IF result = [pending |-> TRUE] THEN <<>> ELSE result.errors,
   seenUTXOs |-> {}]

\* Lines 20-21: the locals of a call.
newCall == [errors |-> <<>>, seenUTXOs |-> {}]

\* Lines 19-69: the ValidationResult of validateTransaction(tx).
validationResult(tx) ==
  LET errors == forEachInput(tx, 1, newCall).errors
  IN  [valid |-> Len(errors) = 0, errors |-> errors]

(* ------------------------------ actions -------------------------------- *)

Unsigned(tx) == \A i \in 1..Len(tx.inputs) : tx.inputs[i].signature = NoSignature

Init ==
  /\ utxoPool \in Pools
  /\ transaction = EmptyTransaction
  /\ result = NoResult
  /\ calls = 0

\* The caller adds an input to the transaction it is building.
AddInput ==
  /\ Unsigned(transaction)
  /\ Len(transaction.inputs) < MaxInputs
  /\ \E u \in UTXOIds, k \in Keys :
       transaction' =
         [transaction EXCEPT !.inputs =
            Append(@, [utxoId |-> u, owner |-> k, signature |-> NoSignature])]
  /\ result' = NoResult
  /\ calls' = 0
  /\ UNCHANGED utxoPool

\* The caller adds an output to the transaction it is building.
AddOutput ==
  /\ Unsigned(transaction)
  /\ Len(transaction.outputs) < MaxOutputs
  /\ \E a \in OutputAmounts :
       transaction' =
         [transaction EXCEPT !.outputs =
            Append(@, [amount |-> a, recipient |-> "K1"])]
  /\ result' = NoResult
  /\ calls' = 0
  /\ UNCHANGED utxoPool

\* Every input is signed with the key of its claimed owner over the signing
\* payload of the finished transaction.
SignInputs ==
  /\ Len(transaction.inputs) > 0
  /\ Unsigned(transaction)
  /\ transaction' =
       [transaction EXCEPT !.inputs =
          [i \in 1..Len(transaction.inputs) |->
             [transaction.inputs[i] EXCEPT !.signature =
                sign(createTransactionDataForSigning(transaction),
                     transaction.inputs[i].owner)]]]
  /\ result' = NoResult
  /\ calls' = 0
  /\ UNCHANGED utxoPool

\* validator.validateTransaction(transaction)
validateTransaction ==
  /\ calls < MaxCalls
  /\ result' = validationResult(transaction)
  /\ calls' = calls + 1
  /\ UNCHANGED <<utxoPool, transaction>>

\* The caller starts over with another transaction.
NewTransaction ==
  /\ calls > 0
  /\ transaction' = EmptyTransaction
  /\ result' = NoResult
  /\ calls' = 0
  /\ UNCHANGED utxoPool

Next ==
  \/ AddInput
  \/ AddOutput
  \/ SignInputs
  \/ validateTransaction
  \/ NewTransaction

Spec == Init /\ [][Next]_vars

(* ------------------- vocabulary of the properties ---------------------- *)

Validated == result # NoResult

Inputs == transaction.inputs

Outputs == transaction.outputs

Resolves(input) == utxoPool[input.utxoId] # NoUTXO

ResolvedAmount(input) ==
  IF Resolves(input) THEN utxoPool[input.utxoId].amount ELSE 0

RECURSIVE SumInputs(_)
SumInputs(ins) ==
  IF ins = <<>> THEN 0 ELSE ResolvedAmount(Head(ins)) + SumInputs(Tail(ins))

RECURSIVE SumOutputs(_)
SumOutputs(outs) ==
  IF outs = <<>> THEN 0 ELSE Head(outs).amount + SumOutputs(Tail(outs))

Balanced == SumInputs(Inputs) = SumOutputs(Outputs)

SignatureVerifies(input) ==
  verify(createTransactionDataForSigning(transaction), input.signature,
         utxoPool[input.utxoId].recipient)

CountErrors(code) ==
  Cardinality({i \in 1..Len(result.errors) : result.errors[i].code = code})

ErrorsOf(code) == SelectSeq(result.errors, LAMBDA e : e.code = code)

\* The inputs that repeat the UTXO identifier of an earlier input.
RepeatedInputs ==
  {i \in 1..Len(Inputs) : \E j \in 1..(i - 1) : Inputs[j].utxoId = Inputs[i].utxoId}

DistinctIds == {Inputs[i].utxoId : i \in 1..Len(Inputs)}

NonPositiveOutputs == {i \in 1..Len(Outputs) : Outputs[i].amount <= 0}

NonPositiveInputs ==
  {i \in 1..Len(Inputs) : Resolves(Inputs[i]) /\ ResolvedAmount(Inputs[i]) <= 0}

UnresolvedInputs == {i \in 1..Len(Inputs) : ~Resolves(Inputs[i])}

BadSignatureInputs ==
  {i \in 1..Len(Inputs) : Resolves(Inputs[i]) /\ ~SignatureVerifies(Inputs[i])}

AllResolve == UnresolvedInputs = {}

AllPositive == NonPositiveOutputs = {} /\ NonPositiveInputs = {}

AllAuthorized == BadSignatureInputs = {}

NoRepeat == RepeatedInputs = {}

\* The position of a check in the order existence, output positivity, input
\* positivity, balance, signature, double-spend.
CheckRank(e) ==
  CASE e.code = "UTXO_NOT_FOUND" -> 1
    [] e.code = "NEGATIVE_AMOUNT" ->
         IF e.message.text = "Output amount must be positive" THEN 2 ELSE 3
    [] e.code = "AMOUNT_MISMATCH" -> 4
    [] e.code = "INVALID_SIGNATURE" -> 5
    [] e.code = "DOUBLE_SPENDING" -> 6

(* ------------------------------ claims --------------------------------- *)

\* C1: whenever validateTransaction returns valid=true, all five rules hold
\* for the transaction: every input resolves, every output amount and every
\* referenced UTXO amount is > 0, the amounts balance, every signature
\* verifies against the recipient of its UTXO, and no two inputs share a UTXO
\* identifier; for every number of inputs and outputs, zero included.
C1_ValidImpliesRules ==
  (Validated /\ result.valid) =>
    (AllResolve /\ AllPositive /\ Balanced /\ AllAuthorized /\ NoRepeat)

\* C2: the error list contains exactly one AMOUNT_MISMATCH when the sum of
\* the output amounts differs from the sum of the resolved input amounts, and
\* none when the two sums are equal.
C2_ExactlyOneMismatch ==
  Validated => CountErrors("AMOUNT_MISMATCH") = (IF Balanced THEN 0 ELSE 1)

\* C3: a transaction with zero inputs or zero outputs is valid if and only if
\* the balance check passes and no other check reports an error.
C3_EmptyListsVerdict ==
  (Validated /\ (Len(Inputs) = 0 \/ Len(Outputs) = 0)) =>
    (result.valid <=>
       (Balanced /\ AllResolve /\ AllPositive /\ AllAuthorized /\ NoRepeat))

\* C4: the number of NEGATIVE_AMOUNT errors equals the number of outputs with
\* amount <= 0 plus the number of inputs resolving to a record with
\* amount <= 0.
C4_NegativeAmountCount ==
  Validated =>
    CountErrors("NEGATIVE_AMOUNT") =
      Cardinality(NonPositiveOutputs) + Cardinality(NonPositiveInputs)

\* C5: the number of INVALID_SIGNATURE errors equals the number of inputs
\* whose UTXO resolves and whose signature does not verify against the
\* recipient of that UTXO.
C5_InvalidSignatureCount ==
  Validated => CountErrors("INVALID_SIGNATURE") = Cardinality(BadSignatureInputs)

\* C6: the error list contains exactly one UTXO_NOT_FOUND per input whose
\* identifier is absent from the pool, in input order, and none for inputs
\* that resolve; such an input adds nothing to totalInputValue and causes no
\* NEGATIVE_AMOUNT and no INVALID_SIGNATURE error.
C6_NotFoundPerAbsentInput ==
  Validated =>
    /\ LET nf == ErrorsOf("UTXO_NOT_FOUND")
           un == SelectSeq(Inputs, LAMBDA in : ~Resolves(in))
       IN  /\ Len(nf) = Len(un)
           /\ \A i \in 1..Len(nf) :
                /\ nf[i].message.txId = un[i].utxoId.txId
                /\ nf[i].message.outputIndex = un[i].utxoId.outputIndex
    /\ \A i \in 1..Len(result.errors) :
         LET e == result.errors[i]
         IN  /\ e.code = "AMOUNT_MISMATCH" =>
                  e.message.totalInputValue = SumInputs(Inputs)
             /\ (e.code = "NEGATIVE_AMOUNT"
                   /\ e.message.text = "UTXO amount must be positive") =>
                  utxoPool[e.message.id] # NoUTXO
             /\ e.code = "INVALID_SIGNATURE" =>
                  utxoPool[[txId |-> e.message.txId,
                            outputIndex |-> e.message.outputIndex]] # NoUTXO

\* C6 happens: a validated transaction with an absent input and a resolving
\* input whose signature fails, while value is out of balance.
C6_Witness ==
  /\ Validated
  /\ UnresolvedInputs # {}
  /\ BadSignatureInputs # {}
  /\ ~Balanced
  /\ CountErrors("UTXO_NOT_FOUND") = Cardinality(UnresolvedInputs)

\* C7: one DOUBLE_SPENDING error for each input whose UTXO identifier equals
\* that of an earlier input, in input order, so their number is the number of
\* inputs minus the number of distinct identifiers, whether or not the
\* identifier resolves in the pool.
C7_DoubleSpendPerRepeat ==
  Validated =>
    LET ds == ErrorsOf("DOUBLE_SPENDING")
        rp == SelectSeq([i \in 1..Len(Inputs) |-> [at |-> i, input |-> Inputs[i]]],
                        LAMBDA x : x.at \in RepeatedInputs)
    IN  /\ Len(ds) = Len(Inputs) - Cardinality(DistinctIds)
        /\ Len(ds) = Len(rp)
        /\ \A i \in 1..Len(ds) :
             ds[i].message.utxoKey =
               <<rp[i].input.utxoId.txId, rp[i].input.utxoId.outputIndex>>

\* C7 happens: three inputs on one identifier that is absent from the pool
\* give two DOUBLE_SPENDING errors.
C7_Witness ==
  /\ Validated
  /\ Len(Inputs) = 3
  /\ Cardinality(DistinctIds) = 1
  /\ AllResolve = FALSE
  /\ CountErrors("DOUBLE_SPENDING") = 2

\* C8 as stated: when every input resolves, the amounts balance, every
\* signature verifies and no identifier repeats, the result is valid=true
\* with an empty error list.
C8_Original ==
  (Validated /\ AllResolve /\ Balanced /\ AllAuthorized /\ NoRepeat) =>
    (result.valid /\ result.errors = <<>>)

\* C8 amended: when every input resolves, every output amount and every
\* resolved UTXO amount is > 0, the amounts balance, every signature verifies
\* and no identifier repeats, the result is valid=true with an empty error
\* list.
C8_ValidWhenAllRulesHold ==
  (Validated /\ AllResolve /\ AllPositive /\ Balanced /\ AllAuthorized
     /\ NoRepeat) =>
    (result.valid /\ result.errors = <<>>)

\* C8 happens: a validated two-input transaction that meets every rule.
C8_Witness ==
  /\ Validated
  /\ Len(Inputs) = 2
  /\ Len(Outputs) >= 1
  /\ AllResolve /\ AllPositive /\ Balanced /\ AllAuthorized /\ NoRepeat
  /\ result.valid

C10_ErrorsOrderedByCheck ==
  Validated =>
    \A i, j \in 1..Len(result.errors) :
      i < j => CheckRank(result.errors[i]) <= CheckRank(result.errors[j])

====
